---- MODULE Spec2Model ----
(***************************************************************************)
(* Model of the focused high-accuracy validation pipeline                  *)
(* (src/focused_accuracy_system.py, class FocusedAccuracySystem).          *)
(*                                                                         *)
(* A LayerResult is the dict {'status','confidence','issues','reasoning'}  *)
(* every layer returns.  `issues' is the list of issue strings; a          *)
(* `reasoning' value is the record [text, names, count]: the fixed text of *)
(* the reasoning string and the values the f-string interpolates into it.  *)
(* The result dict of one run keeps its insertion order, so it is a        *)
(* sequence of [layer, result] entries.  The joined reasoning string of a  *)
(* verdict ('; '.join(reasoning_parts)) is kept as the sequence of its     *)
(* parts, each part "<layer>: <reasoning>" being [layer, reasoning].       *)
(*                                                                         *)
(* The content of the analysed file enters the layers only through         *)
(* compile(), ast.parse(), the regular expressions and the import-line     *)
(* scan; `file' records the outcome each of them has on the content.       *)
(***************************************************************************)
EXTENDS Integers, Sequences, FiniteSets, TLC

VARIABLES
  \* FocusedAccuracySystem (src/focused_accuracy_system.py)
  pc,        \* position of focused_analyze: idle, syntax, ..., combine, done, crashed
  file,      \* facts about (file_path, content) of the run
  results,   \* the `results' dict of focused_analyze, in insertion order
  verdict,   \* final_result returned by focused_combine
  llm_calls, \* number of openai_client.chat.completions.create calls made
  temp_file, \* the NamedTemporaryFile of execution_test: none, exists, removed
  env,       \* what the subprocess and the model call answered in this run
  earlier,   \* the calls of focused_analyze that have returned
  \* CursorAgentLearningSystem (src/agent_learning_system.py)
  conversation_history,   \* list of suggestion entries
  failed_suggestions,     \* list of references to entries, as their positions
  successful_suggestions, \* list of references to entries, as their positions
  cursor_rules,           \* number of rule entries appended to .cursorrules
  call,                   \* the last call made on the learning system
  \* AgentChangeHandler (src/auto_agent_monitor.py)
  now,              \* time.time(), in seconds
  disk,             \* content of each watched file
  file_hashes,      \* self.file_hashes
  last_change_time, \* self.last_change_time
  threads,          \* the delayed_analysis threads, in order of their start
  analyses,         \* the contents handed to auto_analyze_code, in order
  \* get_llm_analysis and the prompt of smart_llm_critical_only
  content,             \* the content to be reviewed, as its characters
  max_chars,           \* AccuracyConfig.MAX_ANALYSIS_CHARS
  truncation_strategy, \* AccuracyConfig.TRUNCATION_STRATEGY
  code_to_analyze,     \* the text get_llm_analysis puts in its prompt
  context_note,        \* the note get_llm_analysis puts in its prompt
  prompt_code          \* the text smart_llm_critical_only puts in its prompt

pipeline_vars == <<pc, file, results, verdict, llm_calls, temp_file, env, earlier>>

learning_vars ==
  <<conversation_history, failed_suggestions, successful_suggestions,
    cursor_rules, call>>

monitor_vars == <<now, disk, file_hashes, last_change_time, threads, analyses>>

truncation_vars ==
  <<content, max_chars, truncation_strategy, code_to_analyze, context_note,
    prompt_code>>

vars == <<pipeline_vars, learning_vars, monitor_vars, truncation_vars>>

-----------------------------------------------------------------------------
(* Bounds *)

\* longest reviewer response, in lines
MaxResponseLines == 2

\* lines of a content to be reviewed, and characters of its longest line
MaxLines == 52

MaxLineLength == 25

\* on_modified events the handler receives, and the last second of the clock
MaxEvents == 2

MaxTime == 3

\* suggestions logged on one CursorAgentLearningSystem
MaxSuggestions == 2

\* entries of failed_suggestions and successful_suggestions together
MaxMarks == 3

\* calls of focused_analyze on one FocusedAccuracySystem; a later call
\* repeats the first one: same path and content, and the subprocess and the
\* reviewer answer as they did in the first call
MaxRuns == 2

-----------------------------------------------------------------------------
(* The components as constructed *)

\* the files of the watched directory that on_modified does not ignore
Paths == {"a.py"}

\* a key that a dict does not hold
None == "None"

NoCall == [op |-> "none", id |-> 0, raised |-> "none"]

\* CursorAgentLearningSystem.__init__, and no .cursorrules file yet
LearningIdle ==
  /\ conversation_history = <<>>
  /\ failed_suggestions = <<>>
  /\ successful_suggestions = <<>>
  /\ cursor_rules = 0
  /\ call = NoCall

\* the dict {}
EmptyDict == [key \in {} |-> None]

\* a file that has not been written: no content, and no change of content
NotWritten == [content |-> None, writes |-> 0]

\* AgentChangeHandler.__init__, before any file is written
MonitorIdle ==
  /\ now = 0
  /\ disk = [p \in Paths |-> NotWritten]
  /\ file_hashes = EmptyDict
  /\ last_change_time = EmptyDict
  /\ threads = <<>>
  /\ analyses = <<>>

\* no review has been asked for
TruncationIdle ==
  /\ content = <<>>
  /\ max_chars = 0
  /\ truncation_strategy = "smart"
  /\ code_to_analyze = <<>>
  /\ context_note = None
  /\ prompt_code = <<>>

-----------------------------------------------------------------------------
(* Layer registry *)

LayerOrder ==
  <<"syntax_validation", "import_validation", "security_patterns",
    "execution_test", "smart_llm", "dependency_check">>

Layers == {LayerOrder[i] : i \in 1..Len(LayerOrder)}

validation_layers ==
  [l \in Layers |->
     CASE l = "syntax_validation" -> [weight |-> 25, min_confidence |-> 100]
       [] l = "import_validation" -> [weight |-> 20, min_confidence |-> 95]
       [] l = "security_patterns" -> [weight |-> 20, min_confidence |-> 90]
       [] l = "execution_test"    -> [weight |-> 20, min_confidence |-> 95]
       [] l = "smart_llm"         -> [weight |-> 10, min_confidence |-> 80]
       [] l = "dependency_check"  -> [weight |-> 5,  min_confidence |-> 85]]

\* a reasoning string without interpolated values
Reason(text) == [text |-> text, names |-> <<>>, count |-> 0]

LayerResult(status, confidence, issues, reasoning) ==
  [status |-> status, confidence |-> confidence,
   issues |-> issues, reasoning |-> reasoning]

Entry(layer, result) == [layer |-> layer, result |-> result]

NoVerdict == [status |-> "NONE"]

\* results[key] = value on a dict: a known key keeps its place
dict_set(d, key, value) ==
  IF \E i \in DOMAIN d : d[i].layer = key
    THEN [i \in DOMAIN d |-> IF d[i].layer = key THEN Entry(key, value) ELSE d[i]]
  ELSE Append(d, Entry(key, value))

-----------------------------------------------------------------------------
(* focused_combine *)

IsFail(e, minimum) ==
  e.result.status = "FAIL" /\ e.result.confidence >= minimum

\* mutant: the comparison is strict
IsDefinitiveFailure_strict(e) == IsFail(e, 96)

IsDefinitiveFailure(e) == IsFail(e, 95)

\* mutant: the reviewer's own result is not looked at
definitive_failures_not_llm(res) ==
  LET IsDeterministic(e) == IsDefinitiveFailure(e) /\ e.layer # "smart_llm"
  IN  SelectSeq(res, IsDeterministic)

definitive_failures(res) == SelectSeq(res, IsDefinitiveFailure)

\* mutant: the layer is not tested
IsHighConfSecurityFailure_any_layer(e) == IsFail(e, 90)

\* mutant: the import layer is left out of the list
IsHighConfSecurityFailure_security_only(e) ==
  IsFail(e, 90) /\ e.layer \in {"security_patterns"}

IsHighConfSecurityFailure(e) ==
  /\ IsFail(e, 90)
  /\ e.layer \in {"security_patterns", "import_validation"}

high_conf_security_failures(res) == SelectSeq(res, IsHighConfSecurityFailure)

\* mutant: the threshold is 80
IsMediumConfFailure_80(e) == IsFail(e, 80)

IsMediumConfFailure(e) == IsFail(e, 85)

medium_conf_failures(res) == SelectSeq(res, IsMediumConfFailure)

\* mutant: SKIP results are not passed over
IsNotSkip_never_skips(e) == TRUE

IsNotSkip(e) == e.result.status # "SKIP"

\* the entries the weighted loop does not `continue' over
contributing(res) == SelectSeq(res, IsNotSkip)

\* all_issues.extend(result['issues']) over the entries, in order
RECURSIVE all_issues(_)
all_issues(entries) ==
  IF entries = <<>> THEN <<>>
  ELSE Head(entries).result.issues \o all_issues(Tail(entries))

\* reasoning_parts.append(f"{layer}: {result['reasoning']}") over the entries
reasoning_parts(entries) ==
  [i \in 1..Len(entries) |->
     [layer |-> entries[i].layer, reasoning |-> entries[i].result.reasoning]]

\* mutant: the registry lookup misses and every layer gets the default
weight_default(layer) == 5

\* self.validation_layers.get(layer, {}).get('weight', 5)
weight(layer) ==
  IF layer \in DOMAIN validation_layers THEN validation_layers[layer].weight
  ELSE 5

\* mutant: an UNCERTAIN result scores nothing
score_uncertain_0(result) ==
  IF result.status = "PASS" THEN result.confidence
  ELSE IF result.status = "FAIL" THEN 100 - result.confidence
  ELSE 0

score(result) ==
  IF result.status = "PASS" THEN result.confidence
  ELSE IF result.status = "FAIL" THEN 100 - result.confidence
  ELSE 50

RECURSIVE total_weighted_score(_)
total_weighted_score(entries) ==
  IF entries = <<>> THEN 0
  ELSE score(Head(entries).result) * weight(Head(entries).layer)
       + total_weighted_score(Tail(entries))

RECURSIVE total_weight(_)
total_weight(entries) ==
  IF entries = <<>> THEN 0
  ELSE weight(Head(entries).layer) + total_weight(Tail(entries))

\* int(a / b) for b > 0: the float quotient truncated toward zero.  For the
\* magnitudes of the model a / b is either an integer or at least 1/b away
\* from one, so the float rounding never changes the truncated value.
int_div(a, b) == IF a >= 0 THEN a \div b ELSE -((-a) \div b)

min(a, b) == IF a <= b THEN a ELSE b

final_confidence(entries) ==
  IF total_weight(entries) = 0 THEN 50
  ELSE min(98, int_div(total_weighted_score(entries), total_weight(entries)))

final_status(entries) ==
  IF total_weight(entries) = 0 THEN "UNCERTAIN"
  ELSE IF final_confidence(entries) >= 90 THEN "PASS"
  ELSE IF final_confidence(entries) >= 75 THEN "UNCERTAIN"
  ELSE "FAIL"

\* mutant: the confidence alone decides, from the lower threshold
weighted_should_auto_mark_85(status, confidence) == confidence >= 85

weighted_should_auto_mark(status, confidence) ==
  confidence >= 90 \/ (status = "FAIL" /\ confidence >= 85)

Verdict(status, confidence, entries, auto, res) ==
  [status |-> status, confidence |-> confidence,
   issues |-> all_issues(entries), reasoning |-> reasoning_parts(entries),
   should_auto_mark |-> auto, layer_results |-> res]

\* mutant: the security/import rule is tested before the definitive one
focused_combine_rule2_first(res) ==
  IF high_conf_security_failures(res) # <<>>
    THEN Verdict("FAIL", 92, high_conf_security_failures(res), TRUE, res)
  ELSE IF definitive_failures(res) # <<>>
    THEN Verdict("FAIL", 95, definitive_failures(res), TRUE, res)
  ELSE IF Len(medium_conf_failures(res)) >= 2
    THEN Verdict("FAIL", 88, medium_conf_failures(res), FALSE, res)
  ELSE Verdict(final_status(contributing(res)),
               final_confidence(contributing(res)),
               contributing(res),
               weighted_should_auto_mark(final_status(contributing(res)),
                                         final_confidence(contributing(res))),
               res)

focused_combine(res) ==
  IF definitive_failures(res) # <<>>
    THEN Verdict("FAIL", 95, definitive_failures(res), TRUE, res)
  ELSE IF high_conf_security_failures(res) # <<>>
    THEN Verdict("FAIL", 92, high_conf_security_failures(res), TRUE, res)
  ELSE IF Len(medium_conf_failures(res)) >= 2
    THEN Verdict("FAIL", 88, medium_conf_failures(res), FALSE, res)
  ELSE Verdict(final_status(contributing(res)),
               final_confidence(contributing(res)),
               contributing(res),
               weighted_should_auto_mark(final_status(contributing(res)),
                                         final_confidence(contributing(res))),
               res)

-----------------------------------------------------------------------------
(* The analysed file *)

\* outcomes of compile(content, file_path, 'exec') and of the try block of
\* import_validation (ast.parse and the visitor): it returns normally, raises
\* SyntaxError, or raises another exception (ValueError, RecursionError, ...)
Outcomes == {"ok", "SyntaxError", "Error"}

\* names read in load position and names bound by import statements
ImportCases ==
  { [used |-> {"json", "print"},     imports |-> {"json"}],
    [used |-> {"requests", "print"}, imports |-> {}] }

\* the security patterns (by position in `patterns') that match the content
SecurityCases == { {}, {5}, {1, 5} }

\* the stripped lines that start with 'import ' or 'from ', by kind, and
\* whether '__init__' occurs in the content
DependencyCases ==
  { [import_lines |-> <<"plain">>,            has_init |-> FALSE],
    [import_lines |-> <<"star">>,             has_init |-> FALSE],
    [import_lines |-> <<"relative", "star">>, has_init |-> FALSE],
    [import_lines |-> <<"relative">>,         has_init |-> TRUE] }

\* compile() parses before it generates code, so a content that compiles also
\* parses; the visitor may still fail on it
Files ==
  { f \in [py : BOOLEAN, compile : Outcomes, parse : Outcomes,
           names : ImportCases, security : SecurityCases,
           dependency : DependencyCases] :
      /\ f.compile = "ok" => f.parse # "SyntaxError"
      /\ f.compile = "Error" => f.parse = "Error"
      \* a file that is not Python is never compiled, parsed or visited
      /\ ~f.py => /\ f.compile = "ok" /\ f.parse = "ok"
                  /\ f.names = [used |-> {"json", "print"}, imports |-> {"json"}] }

NoFile ==
  [py |-> FALSE, compile |-> "ok", parse |-> "ok",
   names |-> [used |-> {}, imports |-> {}], security |-> {},
   dependency |-> [import_lines |-> <<>>, has_init |-> FALSE]]

-----------------------------------------------------------------------------
(* Layers 1-4 and 6 *)

NotPythonFile == LayerResult("SKIP", 0, <<>>, Reason("Not Python file"))

\* the exception leaves syntax_validation: only SyntaxError is caught
syntax_validation_raises(f) == f.py /\ f.compile = "Error"

syntax_validation(f) ==
  IF ~f.py THEN NotPythonFile
  ELSE IF f.compile = "ok"
    THEN LayerResult("PASS", 100, <<>>, Reason("Perfect syntax"))
  ELSE LayerResult("FAIL", 100, <<"SyntaxError line <lineno>: <msg>">>,
                   Reason("Definitive syntax error"))

common_modules ==
  {"requests", "json", "os", "sys", "datetime", "time", "random", "numpy",
   "pandas", "matplotlib", "sqlite3", "urllib", "collections"}

missing_imports(f) ==
  { name \in f.names.used :
      /\ name \in common_modules
      /\ name \notin f.names.imports
      /\ name \notin {"print", "len", "range", "str", "int", "float"} }

import_validation_raises(f) == f.py /\ f.parse = "Error"

import_validation(f) ==
  IF ~f.py THEN NotPythonFile
  ELSE IF f.parse = "SyntaxError"
    THEN LayerResult("FAIL", 100,
                     <<"Cannot parse imports due to syntax errors">>,
                     Reason("Syntax prevents import analysis"))
  ELSE IF missing_imports(f) # {}
    THEN LayerResult("FAIL", 90, <<"Missing import: <names>">>,
                     Reason("Likely missing imports detected"))
  ELSE LayerResult("PASS", 95, <<>>, Reason("Import analysis looks good"))

patterns ==
  <<"SQL injection in f-string", "SQL injection in f-string",
    "SQL injection in f-string", "SQL injection in f-string",
    "Code injection via eval", "Code injection via exec",
    "Shell injection risk", "Shell command injection",
    "Shell command injection">>

\* issues.append(description) for each pattern that matches, in list order
RECURSIVE security_issues(_, _)
security_issues(matches, i) ==
  IF i > Len(patterns) THEN <<>>
  ELSE (IF i \in matches THEN <<patterns[i]>> ELSE <<>>)
       \o security_issues(matches, i + 1)

security_patterns(f) ==
  IF security_issues(f.security, 1) # <<>>
    THEN LayerResult("FAIL", 92, security_issues(f.security, 1),
                     [text |-> "Security vulnerabilities: <count>",
                      names |-> <<>>,
                      count |-> Len(security_issues(f.security, 1))])
  ELSE LayerResult("PASS", 90, <<>>,
                   Reason("No security vulnerabilities detected"))

\* what execution_test meets: the temporary file cannot be created, the
\* subprocess cannot be started, it runs over the 5 second timeout, or it
\* exits with code 0 or with another code
ExecutionOutcomes == {"exit0", "nonzero", "timeout", "tempfile_error", "run_error"}

\* mutant: a test that could not be run is reported as skipped
execution_test_skips_on_error(f, outcome) ==
  IF ~f.py \/ outcome \in {"tempfile_error", "run_error"} THEN NotPythonFile
  ELSE IF outcome = "exit0"
    THEN LayerResult("PASS", 95, <<>>, Reason("Code compiles successfully"))
  ELSE IF outcome = "nonzero"
    THEN LayerResult("FAIL", 95, <<"Compilation error: <stderr>">>,
                     Reason("Failed to compile"))
  ELSE LayerResult("FAIL", 90, <<"Compilation timeout">>,
                   Reason("Compilation took too long"))

\* mutant: a timeout is reported with the confidence of a compilation error
execution_test_timeout_95(f, outcome) ==
  IF ~f.py THEN NotPythonFile
  ELSE IF outcome = "exit0"
    THEN LayerResult("PASS", 95, <<>>, Reason("Code compiles successfully"))
  ELSE IF outcome = "nonzero"
    THEN LayerResult("FAIL", 95, <<"Compilation error: <stderr>">>,
                     Reason("Failed to compile"))
  ELSE IF outcome = "timeout"
    THEN LayerResult("FAIL", 95, <<"Compilation timeout">>,
                     Reason("Compilation took too long"))
  ELSE LayerResult("UNCERTAIN", 50, <<"Test error: <e>">>,
                   Reason("Could not test execution"))

execution_test(f, outcome) ==
  IF ~f.py THEN NotPythonFile
  ELSE IF outcome = "exit0"
    THEN LayerResult("PASS", 95, <<>>, Reason("Code compiles successfully"))
  ELSE IF outcome = "nonzero"
    THEN LayerResult("FAIL", 95, <<"Compilation error: <stderr>">>,
                     Reason("Failed to compile"))
  ELSE IF outcome = "timeout"
    THEN LayerResult("FAIL", 90, <<"Compilation timeout">>,
                     Reason("Compilation took too long"))
  ELSE LayerResult("UNCERTAIN", 50, <<"Test error: <e>">>,
                   Reason("Could not test execution"))

\* the temporary file after execution_test: os.unlink runs only after
\* subprocess.run has returned
execution_temp_file(f, outcome) ==
  IF ~f.py \/ outcome = "tempfile_error" THEN "none"
  ELSE IF outcome \in {"exit0", "nonzero"} THEN "removed"
  ELSE "exists"

\* the loop of dependency_check over import_lines
RECURSIVE dependency_issues(_, _)
dependency_issues(lines, has_init) ==
  IF lines = <<>> THEN <<>>
  ELSE (IF Head(lines) \in {"relative", "relative_star"} /\ ~has_init
          THEN <<"Relative import without package context">> ELSE <<>>)
       \o (IF Head(lines) \in {"star", "relative_star"}
             THEN <<"Star import detected (namespace pollution risk)">>
             ELSE <<>>)
       \o dependency_issues(Tail(lines), has_init)

\* mutant: the layer skips a file that is not Python, as layers 1, 2, 4 do
dependency_check_skips(f) ==
  IF ~f.py THEN NotPythonFile
  ELSE IF dependency_issues(f.dependency.import_lines, f.dependency.has_init) # <<>>
    THEN LayerResult("FAIL", 80,
                     dependency_issues(f.dependency.import_lines,
                                       f.dependency.has_init),
                     Reason("Import issues detected"))
  ELSE LayerResult("PASS", 85, <<>>,
                   [text |-> "Dependencies look good (<count> imports)",
                    names |-> <<>>,
                    count |-> Len(f.dependency.import_lines)])

dependency_check(f) ==
  IF dependency_issues(f.dependency.import_lines, f.dependency.has_init) # <<>>
    THEN LayerResult("FAIL", 80,
                     dependency_issues(f.dependency.import_lines,
                                       f.dependency.has_init),
                     Reason("Import issues detected"))
  ELSE LayerResult("PASS", 85, <<>>,
                   [text |-> "Dependencies look good (<count> imports)",
                    names |-> <<>>,
                    count |-> Len(f.dependency.import_lines)])

-----------------------------------------------------------------------------
(* Layer 5: the critical-issue reviewer *)

\* A line of the reviewer's response, already stripped: `head' is the prefix
\* the parser tests with startswith ("" when it is none of the three) and
\* `rest' is line.split(':', 1)[1], a sequence of one-character strings.
ResponseLines ==
  { [head |-> "STATUS:",         rest |-> <<" ", "P", "A", "S", "S">>],
    [head |-> "STATUS:",         rest |-> <<" ", "f", "a", "i", "l">>],
    [head |-> "STATUS:",         rest |-> <<" ", "M", "A", "Y", "B", "E">>],
    [head |-> "CONFIDENCE:",     rest |-> <<" ", "9", "0", "%">>],
    [head |-> "CONFIDENCE:",     rest |-> <<" ", "9", "5", "%">>],
    [head |-> "CONFIDENCE:",     rest |-> <<" ", "4", "7", "%">>],
    [head |-> "CONFIDENCE:",     rest |-> <<" ", "4", "8", "%">>],
    [head |-> "CONFIDENCE:",     rest |-> <<" ", "-", "1", "0", "0", "0", "%">>],
    [head |-> "CONFIDENCE:",     rest |-> <<" ", "h", "i", "g", "h">>],
    [head |-> "CRITICAL_ISSUE:", rest |-> <<" ", "N", "o", "n", "e">>],
    [head |-> "CRITICAL_ISSUE:", rest |-> <<" ", "x", " ", "u", "n", "d", "e", "f">>] }

RECURSIVE SeqsUpTo(_, _)
SeqsUpTo(S, n) ==
  IF n = 0 THEN {<<>>}
  ELSE LET shorter == SeqsUpTo(S, n - 1)
       IN  shorter \cup {Append(q, x) : q \in {r \in shorter : Len(r) = n - 1}, x \in S}

Responses == SeqsUpTo(ResponseLines, MaxResponseLines)

\* what the model call does: it raises, or it returns a response text
Replies ==
  {[raised |-> TRUE, response |-> <<>>]}
    \cup {[raised |-> FALSE, response |-> r] : r \in Responses}

RECURSIVE lstrip(_)
lstrip(chars) ==
  IF chars # <<>> /\ Head(chars) = " " THEN lstrip(Tail(chars)) ELSE chars

RECURSIVE rstrip(_)
rstrip(chars) ==
  IF chars # <<>> /\ chars[Len(chars)] = " "
    THEN rstrip(SubSeq(chars, 1, Len(chars) - 1))
  ELSE chars

strip(chars) == rstrip(lstrip(chars))

IsPercent(c) == c = "%"
IsNotPercent(c) == ~IsPercent(c)

\* str.replace('%', '')
remove_percent(chars) == SelectSeq(chars, IsNotPercent)

upper_char(c) ==
  CASE c = "a" -> "A" [] c = "f" -> "F" [] c = "i" -> "I" [] c = "l" -> "L"
    [] c = "p" -> "P" [] c = "s" -> "S" [] c = "n" -> "N" [] c = "o" -> "O"
    [] c = "e" -> "E" [] OTHER -> c

upper(chars) == [i \in 1..Len(chars) |-> upper_char(chars[i])]

lower_char(c) ==
  CASE c = "N" -> "n" [] c = "O" -> "o" [] c = "E" -> "e" [] OTHER -> c

lower(chars) == [i \in 1..Len(chars) |-> lower_char(chars[i])]

Digits == {"0", "1", "2", "3", "4", "5", "6", "7", "8", "9"}

digit_value(c) ==
  CASE c = "0" -> 0 [] c = "1" -> 1 [] c = "2" -> 2 [] c = "3" -> 3
    [] c = "4" -> 4 [] c = "5" -> 5 [] c = "6" -> 6 [] c = "7" -> 7
    [] c = "8" -> 8 [] c = "9" -> 9

RECURSIVE digits_value(_)
digits_value(chars) ==
  IF chars = <<>> THEN 0
  ELSE 10 * digits_value(SubSeq(chars, 1, Len(chars) - 1))
       + digit_value(chars[Len(chars)])

\* int(s): optional surrounding blanks, an optional sign, then one or more
\* decimal digits; anything else raises ValueError (ok = FALSE)
int(chars) ==
  LET s      == strip(chars)
      signed == s # <<>> /\ Head(s) \in {"+", "-"}
      body   == IF signed THEN Tail(s) ELSE s
      ok     == body # <<>> /\ \A i \in 1..Len(body) : body[i] \in Digits
  IN  [ok |-> ok,
       value |-> IF ~ok THEN 0
                 ELSE IF signed /\ Head(s) = "-" THEN -digits_value(body)
                 ELSE digits_value(body)]

PASS_chars == <<"P", "A", "S", "S">>
FAIL_chars == <<"F", "A", "I", "L">>
none_chars == <<"n", "o", "n", "e">>

\* the issue string kept from a CRITICAL_ISSUE line
IssueText(chars) == "<critical issue>"

\* one iteration of the loop of parse_critical_llm_response
parse_line(result, line) ==
  IF line.head = "STATUS:" THEN
    LET status == upper(strip(line.rest))
    IN  IF status = PASS_chars THEN [result EXCEPT !.status = "PASS"]
        ELSE IF status = FAIL_chars THEN [result EXCEPT !.status = "FAIL"]
        ELSE result
  ELSE IF line.head = "CONFIDENCE:" THEN
    LET conf == int(remove_percent(strip(line.rest)))
    IN  IF conf.ok THEN [result EXCEPT !.confidence = conf.value] ELSE result
  ELSE IF line.head = "CRITICAL_ISSUE:" THEN
    LET issue == strip(line.rest)
    IN  IF lower(issue) # none_chars
          THEN [result EXCEPT !.issues = <<IssueText(issue)>>,
                              !.reasoning = Reason("Critical issue: <issue>")]
        ELSE result
  ELSE result

RECURSIVE parse_lines(_, _)
parse_lines(result, lines) ==
  IF lines = <<>> THEN result
  ELSE parse_lines(parse_line(result, Head(lines)), Tail(lines))

parse_critical_llm_response(response) ==
  parse_lines(LayerResult("UNCERTAIN", 50, <<>>, Reason("LLM analysis")),
              response)

IsHighConfFailure(e) == IsFail(e, 95)

\* high_conf_failures of smart_llm_critical_only
high_conf_failures(previous_results) ==
  SelectSeq(previous_results, IsHighConfFailure)

layer_names(entries) == [i \in 1..Len(entries) |-> entries[i].layer]

\* mutant: no short-circuit
llm_is_called_always(previous_results) == TRUE

\* whether smart_llm_critical_only reaches the model call
llm_is_called(previous_results) == high_conf_failures(previous_results) = <<>>

\* mutant: a failed call is passed over without an issue
smart_llm_critical_only_silent(previous_results, reply) ==
  IF ~llm_is_called(previous_results)
    THEN LayerResult("FAIL", 100, <<>>,
                     [text |-> "Confirmed by: <layers>",
                      names |-> layer_names(high_conf_failures(previous_results)),
                      count |-> 0])
  ELSE IF reply.raised
    THEN LayerResult("UNCERTAIN", 50, <<>>, Reason("LLM analysis"))
  ELSE parse_critical_llm_response(reply.response)

smart_llm_critical_only(previous_results, reply) ==
  IF ~llm_is_called(previous_results)
    THEN LayerResult("FAIL", 100, <<>>,
                     [text |-> "Confirmed by: <layers>",
                      names |-> layer_names(high_conf_failures(previous_results)),
                      count |-> 0])
  ELSE IF reply.raised
    THEN LayerResult("UNCERTAIN", 50, <<"LLM analysis failed: <e>">>,
                     Reason("Could not get critical issue analysis"))
  ELSE parse_critical_llm_response(reply.response)

-----------------------------------------------------------------------------
(* focused_analyze, one action per layer call *)

NoReply == [raised |-> FALSE, response |-> <<>>]

NoEnv == [outcome |-> "none", reply |-> NoReply]

\* FocusedAccuracySystem.__init__
PipelineIdle ==
  /\ pc = "idle"
  /\ file = NoFile
  /\ results = <<>>
  /\ verdict = NoVerdict
  /\ llm_calls = 0
  /\ temp_file = "none"
  /\ env = NoEnv
  /\ earlier = <<>>

Init == PipelineIdle /\ LearningIdle /\ MonitorIdle /\ TruncationIdle

\* mutant: the result dict outlives the call
Analyze_keeps_results(f) ==
  /\ pc = "idle"
  /\ earlier # <<>> => f = earlier[1].file
  /\ pc' = "syntax"
  /\ file' = f
  /\ env' = IF earlier = <<>> THEN NoEnv ELSE earlier[1].env
  /\ UNCHANGED <<results, verdict, llm_calls, temp_file, earlier>>
  /\ UNCHANGED <<learning_vars, monitor_vars, truncation_vars>>

\* focused_analyze(file_path, content) is entered: results = {}
Analyze(f) ==
  /\ pc = "idle"
  /\ earlier # <<>> => f = earlier[1].file
  /\ pc' = "syntax"
  /\ file' = f
  /\ results' = <<>>
  /\ env' = IF earlier = <<>> THEN NoEnv ELSE earlier[1].env
  /\ UNCHANGED <<verdict, llm_calls, temp_file, earlier>>
  /\ UNCHANGED <<learning_vars, monitor_vars, truncation_vars>>

SyntaxLayer ==
  /\ pc = "syntax"
  /\ ~syntax_validation_raises(file)
  /\ results' = dict_set(results, "syntax_validation", syntax_validation(file))
  /\ pc' = "import"
  /\ UNCHANGED <<file, verdict, llm_calls, temp_file, env, earlier>>
  /\ UNCHANGED <<learning_vars, monitor_vars, truncation_vars>>

\* compile raised something other than SyntaxError: it leaves focused_analyze
SyntaxLayerRaises ==
  /\ pc = "syntax"
  /\ syntax_validation_raises(file)
  /\ pc' = "crashed"
  /\ UNCHANGED <<file, results, verdict, llm_calls, temp_file, env, earlier>>
  /\ UNCHANGED <<learning_vars, monitor_vars, truncation_vars>>

ImportLayer ==
  /\ pc = "import"
  /\ ~import_validation_raises(file)
  /\ results' = dict_set(results, "import_validation", import_validation(file))
  /\ pc' = "security"
  /\ UNCHANGED <<file, verdict, llm_calls, temp_file, env, earlier>>
  /\ UNCHANGED <<learning_vars, monitor_vars, truncation_vars>>

ImportLayerRaises ==
  /\ pc = "import"
  /\ import_validation_raises(file)
  /\ pc' = "crashed"
  /\ UNCHANGED <<file, results, verdict, llm_calls, temp_file, env, earlier>>
  /\ UNCHANGED <<learning_vars, monitor_vars, truncation_vars>>

\* mutant: the execution test is left out of the run
SecurityLayer_then_llm ==
  /\ pc = "security"
  /\ results' = dict_set(results, "security_patterns", security_patterns(file))
  /\ pc' = "llm"
  /\ UNCHANGED <<file, verdict, llm_calls, temp_file, env, earlier>>
  /\ UNCHANGED <<learning_vars, monitor_vars, truncation_vars>>

SecurityLayer ==
  /\ pc = "security"
  /\ results' = dict_set(results, "security_patterns", security_patterns(file))
  /\ pc' = "execution"
  /\ UNCHANGED <<file, verdict, llm_calls, temp_file, env, earlier>>
  /\ UNCHANGED <<learning_vars, monitor_vars, truncation_vars>>

\* for a path that is not .py the layer returns before it runs anything
ExecutionLayer(outcome) ==
  /\ pc = "execution"
  /\ (earlier # <<>> /\ file.py) => outcome = env.outcome
  /\ results' = dict_set(results, "execution_test", execution_test(file, outcome))
  /\ temp_file' = execution_temp_file(file, outcome)
  /\ env' = [env EXCEPT !.outcome = IF file.py THEN outcome ELSE @]
  /\ pc' = "llm"
  /\ UNCHANGED <<file, verdict, llm_calls, earlier>>
  /\ UNCHANGED <<learning_vars, monitor_vars, truncation_vars>>

\* the reply is read only when the layer reaches the model call
LLMLayer(reply) ==
  /\ pc = "llm"
  /\ (earlier # <<>> /\ llm_is_called(results)) => reply = env.reply
  /\ results' = dict_set(results, "smart_llm", smart_llm_critical_only(results, reply))
  /\ llm_calls' = IF llm_is_called(results) THEN llm_calls + 1 ELSE llm_calls
  /\ env' = [env EXCEPT !.reply = IF llm_is_called(results) THEN reply ELSE @]
  /\ pc' = "dependency"
  /\ UNCHANGED <<file, verdict, temp_file, earlier>>
  /\ UNCHANGED <<learning_vars, monitor_vars, truncation_vars>>

DependencyLayer ==
  /\ pc = "dependency"
  /\ results' = dict_set(results, "dependency_check", dependency_check(file))
  /\ pc' = "combine"
  /\ UNCHANGED <<file, verdict, llm_calls, temp_file, env, earlier>>
  /\ UNCHANGED <<learning_vars, monitor_vars, truncation_vars>>

\* final_result = self.focused_combine(results)
Combine ==
  /\ pc = "combine"
  /\ verdict' = focused_combine(results)
  /\ pc' = "done"
  /\ UNCHANGED <<file, results, llm_calls, temp_file, env, earlier>>
  /\ UNCHANGED <<learning_vars, monitor_vars, truncation_vars>>

\* return final_result: the caller has the verdict and may call again
Return ==
  /\ pc = "done"
  /\ Len(earlier) + 1 < MaxRuns
  /\ earlier' = Append(earlier, [file |-> file, env |-> env, verdict |-> verdict])
  /\ pc' = "idle"
  /\ UNCHANGED <<file, results, verdict, llm_calls, temp_file, env>>
  /\ UNCHANGED <<learning_vars, monitor_vars, truncation_vars>>

Next ==
  \/ \E f \in Files : Analyze(f)
  \/ SyntaxLayer
  \/ SyntaxLayerRaises
  \/ ImportLayer
  \/ ImportLayerRaises
  \/ SecurityLayer
  \/ \E outcome \in ExecutionOutcomes : ExecutionLayer(outcome)
  \/ \E reply \in Replies : LLMLayer(reply)
  \/ DependencyLayer
  \/ Combine
  \/ Return

Spec == Init /\ [][Next]_vars

-----------------------------------------------------------------------------
(* focused_combine on its own: every map of six layer results *)

\* the confidence each layer gives a PASS result; the reviewer's is whatever
\* its response states
PassConfidence(layer) ==
  IF layer = "smart_llm" THEN 90 ELSE validation_layers[layer].min_confidence

\* confidences on both sides of the thresholds 85, 90 and 95, and the 100 of
\* a syntax error
FailConfidences(layer) ==
  {80, 85, 90, 95} \cup (IF layer = "syntax_validation" THEN {100} ELSE {})

LayerIssue(layer) ==
  CASE layer = "syntax_validation" -> "SyntaxError line <lineno>: <msg>"
    [] layer = "import_validation" -> "Missing import: <names>"
    [] layer = "security_patterns" -> "Code injection via eval"
    [] layer = "execution_test"    -> "Compilation error: <stderr>"
    [] layer = "smart_llm"         -> "<critical issue>"
    [] layer = "dependency_check"  -> "Star import detected (namespace pollution risk)"

LayerResults(layer) ==
  {NotPythonFile}
    \cup {LayerResult("PASS", PassConfidence(layer), <<>>, Reason("passed"))}
    \cup {LayerResult("FAIL", c, <<LayerIssue(layer)>>, Reason("failed")) : c \in FailConfidences(layer)}
    \cup {LayerResult("UNCERTAIN", 50, <<LayerIssue(layer)>>, Reason("uncertain"))}

\* focused_combine(results) is about to be called on a map of six results
InitCombine ==
  \E r1 \in LayerResults(LayerOrder[1]), r2 \in LayerResults(LayerOrder[2]),
     r3 \in LayerResults(LayerOrder[3]), r4 \in LayerResults(LayerOrder[4]),
     r5 \in LayerResults(LayerOrder[5]), r6 \in LayerResults(LayerOrder[6]) :
    /\ pc = "combine"
    /\ file = NoFile
    /\ results = <<Entry(LayerOrder[1], r1), Entry(LayerOrder[2], r2),
                   Entry(LayerOrder[3], r3), Entry(LayerOrder[4], r4),
                   Entry(LayerOrder[5], r5), Entry(LayerOrder[6], r6)>>
    /\ verdict = NoVerdict
    /\ llm_calls = 0
    /\ temp_file = "none"
    /\ env = NoEnv
    /\ earlier = <<>>
    /\ LearningIdle /\ MonitorIdle /\ TruncationIdle

NextCombine == Combine

SpecCombine == InitCombine /\ [][NextCombine]_vars

-----------------------------------------------------------------------------
(* CursorAgentLearningSystem *)

\* texts a file or a code snippet can hold
Contents == {"v1", "v2", "v3"}

\* suggestion ids a caller can pass: negative ones, logged ones, later ones
SuggestionIds == (0 - MaxSuggestions - 1)..MaxSuggestions

\* list[i] raises IndexError
IndexError(list, i) == i >= Len(list) \/ i < 0 - Len(list)

\* the position of list[i], counting from 1; a negative i counts from the end
item(list, i) == IF i >= 0 THEN i + 1 ELSE Len(list) + i + 1

suggestion_entry(code, context) ==
  [code_provided |-> code, context |-> context, status |-> "pending",
   error_details |-> None]

Call(op, id, raised) == [op |-> op, id |-> id, raised |-> raised]

\* the marks made so far; the model stops marking at MaxMarks
Marks == Len(failed_suggestions) + Len(successful_suggestions)

log_agent_suggestion(code) ==
  /\ Len(conversation_history) < MaxSuggestions
  /\ conversation_history' = Append(conversation_history, suggestion_entry(code, ""))
  /\ call' = Call("log_agent_suggestion", Len(conversation_history), "none")
  /\ UNCHANGED <<failed_suggestions, successful_suggestions, cursor_rules>>
  /\ UNCHANGED <<pipeline_vars, monitor_vars, truncation_vars>>

\* what _analyze_failure_and_generate_rules meets: the model call raises, or
\* it answers and .cursorrules is appended to, or cannot be written
RulesOutcomes == {"APIError", "written", "not_written"}

mark_suggestion_failed(suggestion_id, outcome) ==
  /\ Marks < MaxMarks
  /\ IF suggestion_id >= Len(conversation_history)
       THEN /\ call' = Call("mark_suggestion_failed", suggestion_id, "none")
            /\ UNCHANGED <<conversation_history, failed_suggestions, cursor_rules>>
     ELSE IF IndexError(conversation_history, suggestion_id)
       THEN /\ call' = Call("mark_suggestion_failed", suggestion_id, "IndexError")
            /\ UNCHANGED <<conversation_history, failed_suggestions, cursor_rules>>
     ELSE /\ conversation_history' =
               [conversation_history EXCEPT
                  ![item(conversation_history, suggestion_id)].status = "failed",
                  ![item(conversation_history, suggestion_id)].error_details = "error"]
          /\ failed_suggestions' =
               Append(failed_suggestions, item(conversation_history, suggestion_id))
          /\ cursor_rules' = IF outcome = "written" THEN cursor_rules + 1 ELSE cursor_rules
          /\ call' = Call("mark_suggestion_failed", suggestion_id,
                          IF outcome = "APIError" THEN "APIError" ELSE "none")
  /\ UNCHANGED successful_suggestions
  /\ UNCHANGED <<pipeline_vars, monitor_vars, truncation_vars>>

mark_suggestion_successful(suggestion_id) ==
  /\ Marks < MaxMarks
  /\ IF suggestion_id >= Len(conversation_history)
       THEN /\ call' = Call("mark_suggestion_successful", suggestion_id, "none")
            /\ UNCHANGED <<conversation_history, successful_suggestions>>
     ELSE IF IndexError(conversation_history, suggestion_id)
       THEN /\ call' = Call("mark_suggestion_successful", suggestion_id, "IndexError")
            /\ UNCHANGED <<conversation_history, successful_suggestions>>
     ELSE /\ conversation_history' =
               [conversation_history EXCEPT
                  ![item(conversation_history, suggestion_id)].status = "successful"]
          /\ successful_suggestions' =
               Append(successful_suggestions, item(conversation_history, suggestion_id))
          /\ call' = Call("mark_suggestion_successful", suggestion_id, "none")
  /\ UNCHANGED <<failed_suggestions, cursor_rules>>
  /\ UNCHANGED <<pipeline_vars, monitor_vars, truncation_vars>>

\* success_rate is the quotient num / den
get_learning_stats ==
  LET total == Len(conversation_history)
      successful == Len(successful_suggestions)
      failed == Len(failed_suggestions)
  IN  [total_suggestions |-> total,
       successful |-> successful,
       failed |-> failed,
       pending |-> total - successful - failed,
       success_rate |-> IF total > 0 THEN [num |-> successful * 100, den |-> total]
                        ELSE [num |-> 0, den |-> 1]]

NextLearning ==
  \/ \E code \in Contents : log_agent_suggestion(code)
  \/ \E id \in SuggestionIds, outcome \in RulesOutcomes : mark_suggestion_failed(id, outcome)
  \/ \E id \in SuggestionIds : mark_suggestion_successful(id)

SpecLearning == Init /\ [][NextLearning]_vars

-----------------------------------------------------------------------------
(* AgentChangeHandler *)

\* what an agent writes to a watched file
FileContents == {"v1", "v2"}

\* a file of the watched directory whose suffix is not a code extension
IgnoredPaths == {"debug.log"}

should_ignore_file(file_path) == file_path \in IgnoredPaths

\* hashlib.md5(...).hexdigest(): the contents of the model have different
\* digests
md5(text) ==
  CASE text = "v1" -> "md5 of v1"
    [] text = "v2" -> "md5 of v2"
    [] text = "v3" -> "md5 of v3"

\* dict.get(key, default) and dict[key] = value
get(dict, key, default) == IF key \in DOMAIN dict THEN dict[key] ELSE default

set(dict, key, value) ==
  [k \in DOMAIN dict \cup {key} |-> IF k = key THEN value ELSE dict[k]]

\* a delayed_analysis thread at time.sleep(2), started at time `started'
Thread(file_path, started) ==
  [file_path |-> file_path, pc |-> "sleep", started |-> started,
   current_time |-> 0, snapshot |-> NotWritten, previous_hash |-> None,
   suggestion_id |-> 0]

\* the file after `text' is written to it
written(old, text) ==
  [content |-> text,
   writes |-> IF old.content = text THEN old.writes ELSE old.writes + 1]

\* the agent writes `text' to the file (or saves it as it is) and the
\* observer delivers the event: on_modified, with schedule_analysis
on_modified(file_path, text) ==
  /\ Len(threads) < MaxEvents
  /\ now + 2 <= MaxTime
  /\ IF should_ignore_file(file_path)
       THEN UNCHANGED <<disk, last_change_time, threads>>
     ELSE /\ disk' = [disk EXCEPT ![file_path] = written(@, text)]
          /\ last_change_time' = set(last_change_time, file_path, now)
          /\ threads' = Append(threads, Thread(file_path, now))
  /\ UNCHANGED <<now, file_hashes, analyses>>
  /\ UNCHANGED <<pipeline_vars, learning_vars, truncation_vars>>

\* a second passes
Tick ==
  /\ now < MaxTime
  /\ now' = now + 1
  /\ UNCHANGED <<disk, file_hashes, last_change_time, threads, analyses>>
  /\ UNCHANGED <<pipeline_vars, learning_vars, truncation_vars>>

\* positions at which delayed_analysis has returned
Ended == {"superseded", "unreadable", "unchanged", "done", "error"}

\* thread t goes on from position `from' with its record changed to `record';
\* the locals of a call that has returned are gone
Step(t, from, record) ==
  /\ t \in DOMAIN threads
  /\ threads[t].pc = from
  /\ threads' =
       [threads EXCEPT ![t] =
          IF record.pc \in Ended
            THEN [record EXCEPT !.current_time = 0, !.previous_hash = None,
                                !.suggestion_id = 0]
          ELSE record]

\* time.sleep(2) returns, not before two seconds have passed, and the thread
\* reads the clock (lines 77-79)
Wake(t) ==
  /\ t \in DOMAIN threads
  /\ now >= threads[t].started + 2
  /\ Step(t, "sleep", [threads[t] EXCEPT !.pc = "check", !.current_time = now])
  /\ UNCHANGED <<now, disk, file_hashes, last_change_time, analyses>>
  /\ UNCHANGED <<pipeline_vars, learning_vars, truncation_vars>>

\* no later change in the last two seconds (line 80)
debounced(thread) ==
  thread.current_time - get(last_change_time, thread.file_path, 0) >= 2

\* mutant: every thread that wakes goes on to the analysis
Check_always(t) ==
  /\ Step(t, "check", [threads[t] EXCEPT !.pc = "read"])
  /\ UNCHANGED <<now, disk, file_hashes, last_change_time, analyses>>
  /\ UNCHANGED <<pipeline_vars, learning_vars, truncation_vars>>

\* the thread calls analyze_file_change, or ends (lines 80-81)
Check(t) ==
  /\ Step(t, "check",
          [threads[t] EXCEPT !.pc = IF debounced(threads[t]) THEN "read"
                                    ELSE "superseded"])
  /\ UNCHANGED <<now, disk, file_hashes, last_change_time, analyses>>
  /\ UNCHANGED <<pipeline_vars, learning_vars, truncation_vars>>

\* the file is read (lines 91-95)
ReadFile(t) ==
  /\ t \in DOMAIN threads
  /\ Step(t, "read", [threads[t] EXCEPT !.pc = "get_hash",
                                        !.snapshot = disk[threads[t].file_path]])
  /\ UNCHANGED <<now, disk, file_hashes, last_change_time, analyses>>
  /\ UNCHANGED <<pipeline_vars, learning_vars, truncation_vars>>

\* open() or read() raises, and the handler of line 116 prints the error
ReadFileRaises(t) ==
  /\ Step(t, "read", [threads[t] EXCEPT !.pc = "unreadable"])
  /\ UNCHANGED <<now, disk, file_hashes, last_change_time, analyses>>
  /\ UNCHANGED <<pipeline_vars, learning_vars, truncation_vars>>

\* previous_hash = self.file_hashes.get(file_path) (line 96)
GetHash(t) ==
  /\ t \in DOMAIN threads
  /\ Step(t, "get_hash",
          [threads[t] EXCEPT !.pc = "compare",
                             !.previous_hash =
                                get(file_hashes, threads[t].file_path, None)])
  /\ UNCHANGED <<now, disk, file_hashes, last_change_time, analyses>>
  /\ UNCHANGED <<pipeline_vars, learning_vars, truncation_vars>>

current_hash(thread) == md5(thread.snapshot.content)

\* mutant: the hash is compared and never recorded
Compare_no_record(t) ==
  /\ t \in DOMAIN threads
  /\ threads[t].pc = "compare"
  /\ Step(t, "compare",
          [threads[t] EXCEPT !.pc = IF current_hash(threads[t]) = threads[t].previous_hash
                                      THEN "unchanged" ELSE "log"])
  /\ UNCHANGED <<now, disk, file_hashes, last_change_time, analyses>>
  /\ UNCHANGED <<pipeline_vars, learning_vars, truncation_vars>>

\* no actual change: return; otherwise record the hash (lines 98-101)
Compare(t) ==
  /\ t \in DOMAIN threads
  /\ threads[t].pc = "compare"
  /\ IF current_hash(threads[t]) = threads[t].previous_hash
       THEN /\ Step(t, "compare", [threads[t] EXCEPT !.pc = "unchanged"])
            /\ UNCHANGED file_hashes
     ELSE /\ Step(t, "compare", [threads[t] EXCEPT !.pc = "log"])
          /\ file_hashes' = set(file_hashes, threads[t].file_path, current_hash(threads[t]))
  /\ UNCHANGED <<now, disk, last_change_time, analyses>>
  /\ UNCHANGED <<pipeline_vars, learning_vars, truncation_vars>>

\* get_file_diff and log_agent_change (lines 104-111, 142-166)
LogAgentChange(t) ==
  /\ t \in DOMAIN threads
  /\ Step(t, "log", [threads[t] EXCEPT !.pc = "analyze",
                                       !.suggestion_id = Len(conversation_history)])
  /\ conversation_history' =
       Append(conversation_history,
              suggestion_entry(threads[t].snapshot.content, threads[t].file_path))
  /\ call' = Call("log_agent_suggestion", Len(conversation_history), "none")
  /\ UNCHANGED <<failed_suggestions, successful_suggestions, cursor_rules>>
  /\ UNCHANGED <<now, disk, file_hashes, last_change_time, analyses>>
  /\ UNCHANGED <<pipeline_vars, truncation_vars>>

\* final_assessment of auto_analyze_code: auto-marked FAIL, auto-marked PASS
\* or UNCERTAIN, or not auto-marked
Assessments == {"FAIL", "PASS", "prompt"}

\* auto_analyze_code (lines 169-196); an exception of the rule generation
\* ends analyze_file_change in its handler (line 116)
AutoAnalyzeCode(t, assessment, outcome) ==
  /\ t \in DOMAIN threads
  /\ analyses' = Append(analyses, [file_path |-> threads[t].file_path,
                                   content |-> threads[t].snapshot.content])
  /\ CASE assessment = "FAIL" ->
            /\ conversation_history' =
                 [conversation_history EXCEPT
                    ![threads[t].suggestion_id + 1].status = "failed",
                    ![threads[t].suggestion_id + 1].error_details = "error"]
            /\ failed_suggestions' =
                 Append(failed_suggestions, threads[t].suggestion_id + 1)
            /\ cursor_rules' = IF outcome = "written" THEN cursor_rules + 1 ELSE cursor_rules
            /\ call' = Call("mark_suggestion_failed", threads[t].suggestion_id,
                            IF outcome = "APIError" THEN "APIError" ELSE "none")
            /\ Step(t, "analyze",
                    [threads[t] EXCEPT !.pc = IF outcome = "APIError" THEN "error"
                                              ELSE "done"])
            /\ UNCHANGED successful_suggestions
       [] assessment = "PASS" ->
            /\ outcome = "not_written"
            /\ conversation_history' =
                 [conversation_history EXCEPT
                    ![threads[t].suggestion_id + 1].status = "successful"]
            /\ successful_suggestions' =
                 Append(successful_suggestions, threads[t].suggestion_id + 1)
            /\ call' = Call("mark_suggestion_successful", threads[t].suggestion_id, "none")
            /\ Step(t, "analyze", [threads[t] EXCEPT !.pc = "done"])
            /\ UNCHANGED <<failed_suggestions, cursor_rules>>
       [] OTHER ->
            /\ outcome = "not_written"
            /\ Step(t, "analyze", [threads[t] EXCEPT !.pc = "done"])
            /\ UNCHANGED learning_vars
  /\ UNCHANGED <<now, disk, file_hashes, last_change_time>>
  /\ UNCHANGED <<pipeline_vars, truncation_vars>>

\* what thread t does next
ThreadStep(t) ==
  \/ Wake(t)
  \/ Check(t)
  \/ ReadFile(t)
  \/ ReadFileRaises(t)
  \/ GetHash(t)
  \/ Compare(t)
  \/ LogAgentChange(t)
  \/ \E assessment \in Assessments, outcome \in RulesOutcomes :
       AutoAnalyzeCode(t, assessment, outcome)

NextMonitor ==
  \/ \E p \in Paths \cup IgnoredPaths, text \in FileContents : on_modified(p, text)
  \/ Tick
  \/ \E t \in 1..MaxEvents : ThreadStep(t)

SpecMonitor == Init /\ [][NextMonitor]_vars

\* delayed_analysis up to its call of analyze_file_change
DelayedAnalysis(t) == Wake(t) \/ Check(t)

NextDebounce ==
  \/ \E p \in Paths \cup IgnoredPaths, text \in FileContents : on_modified(p, text)
  \/ Tick
  \/ \E t \in 1..MaxEvents : DelayedAnalysis(t)

\* time passes, and every started thread is scheduled
Fairness ==
  /\ WF_vars(Tick)
  /\ \A t \in 1..MaxEvents : WF_vars(DelayedAnalysis(t))

\* the debounce: on_modified, schedule_analysis and the threads it starts, up
\* to their calls of analyze_file_change
SpecDebounce == Init /\ [][NextDebounce]_vars /\ Fairness

\* thread t is inside analyze_file_change
InCall(t) == threads[t].pc \in {"read", "get_hash", "compare", "log", "analyze"}

\* analyze_file_change is called while no other call of it is running
CheckInTurn(t) ==
  /\ \A u \in DOMAIN threads : ~InCall(u)
  /\ Check(t)

\* the calls of analyze_file_change follow one another
NextSequential ==
  \/ \E p \in Paths \cup IgnoredPaths, text \in FileContents : on_modified(p, text)
  \/ Tick
  \/ \E t \in 1..MaxEvents :
       \/ Wake(t)
       \/ CheckInTurn(t)
       \/ ReadFile(t)
       \/ ReadFileRaises(t)
       \/ GetHash(t)
       \/ Compare(t)
       \/ LogAgentChange(t)
       \/ \E assessment \in Assessments, outcome \in RulesOutcomes :
            AutoAnalyzeCode(t, assessment, outcome)

SpecSequential == Init /\ [][NextSequential]_vars

-----------------------------------------------------------------------------
(* The text selected for the reviewer *)

\* a content of n lines of k characters each, joined by newlines, with or
\* without a newline after the last line
Text(n, k, trailing) ==
  [j \in 1..(n * (k + 1) - (IF trailing THEN 0 ELSE 1)) |->
     IF j % (k + 1) = 0 THEN "\n"
     ELSE <<"a", "b", "c">>[(((j - 1) \div (k + 1)) % 3) + 1]]

LineCounts == {1, 2} \cup (49..MaxLines)

LineLengths == {0, 1, MaxLineLength}

\* values of AccuracyConfig.MAX_ANALYSIS_CHARS
MaxCharsValues == {0, 60, 1200, 2000}

\* values of AccuracyConfig.TRUNCATION_STRATEGY: the two the code names, and
\* two of the others, which all take the last branch
TruncationStrategies == {"full", "smart", "beginning", "end"}

\* str.split('\n')
RECURSIVE split(_)
split(chars) ==
  LET cuts == {i \in DOMAIN chars : chars[i] = "\n"}
  IN  IF cuts = {} THEN <<chars>>
      ELSE LET first == CHOOSE p \in cuts : \A q \in cuts : p <= q
           IN  <<SubSeq(chars, 1, first - 1)>>
                 \o split(SubSeq(chars, first + 1, Len(chars)))

\* '\n'.join(lines)
RECURSIVE join(_)
join(lines) ==
  IF lines = <<>> THEN <<>>
  ELSE IF Len(lines) = 1 THEN lines[1]
  ELSE lines[1] \o <<"\n">> \o join(Tail(lines))

\* list[:n] and list[-n:] for n > 0, str[:n] for n >= 0
first_n(list, n) == SubSeq(list, 1, IF n < Len(list) THEN n ELSE Len(list))

last_n(list, n) == SubSeq(list, IF n < Len(list) THEN Len(list) - n + 1 ELSE 1, Len(list))

\* str[-n:] for n >= 0: -0 is 0, so str[-0:] is the whole string
last_chars(chars, n) == IF n = 0 THEN chars ELSE last_n(chars, n)

truncated_marker ==
  <<".", ".", ".", " ", "(", "c", "o", "n", "t", "e", "n", "t", " ", "t", "r", "u", "n", "c", "a", "t", "e", "d", ")", " ", ".", ".", ".">>

ellipsis == <<".", ".", ".">>

Selection(code, note) == [code_to_analyze |-> code, context_note |-> note]

\* mutant: the tail is one line short
select_code_short_tail(text, limit, strategy) ==
  IF Len(text) <= limit THEN Selection(text, "Full file content")
  ELSE IF strategy = "smart"
    THEN IF Len(split(text)) > 50
           THEN Selection(join(first_n(split(text), 25) \o <<truncated_marker>>
                                 \o last_n(split(text), 24)),
                          "Truncated content (first/last 25 lines)")
         ELSE Selection(first_n(text, limit) \o ellipsis,
                        "Truncated content (first <max_chars> chars)")
  ELSE IF strategy = "beginning"
    THEN Selection(first_n(text, limit) \o ellipsis,
                   "Truncated content (first <max_chars> chars)")
  ELSE Selection(ellipsis \o last_chars(text, limit),
                 "Truncated content (last <max_chars> chars)")

\* lines 222-244 of get_llm_analysis
select_code(text, limit, strategy) ==
  IF Len(text) <= limit THEN Selection(text, "Full file content")
  ELSE IF strategy = "smart"
    THEN IF Len(split(text)) > 50
           THEN Selection(join(first_n(split(text), 25) \o <<truncated_marker>>
                                 \o last_n(split(text), 25)),
                          "Truncated content (first/last 25 lines)")
         ELSE Selection(first_n(text, limit) \o ellipsis,
                        "Truncated content (first <max_chars> chars)")
  ELSE IF strategy = "beginning"
    THEN Selection(first_n(text, limit) \o ellipsis,
                   "Truncated content (first <max_chars> chars)")
  ELSE Selection(ellipsis \o last_chars(text, limit),
                 "Truncated content (last <max_chars> chars)")

\* the {content[:1000]} of the prompt of smart_llm_critical_only
critical_prompt_code(text) == first_n(text, 1000)

\* get_llm_analysis builds its prompt
GetLLMAnalysis ==
  /\ context_note = None
  /\ code_to_analyze' = select_code(content, max_chars, truncation_strategy).code_to_analyze
  /\ context_note' = select_code(content, max_chars, truncation_strategy).context_note
  /\ UNCHANGED <<content, max_chars, truncation_strategy, prompt_code>>
  /\ UNCHANGED <<pipeline_vars, learning_vars, monitor_vars>>

\* smart_llm_critical_only builds its prompt
SmartLLMPrompt ==
  /\ prompt_code = <<>>
  /\ prompt_code' = critical_prompt_code(content)
  /\ UNCHANGED <<content, max_chars, truncation_strategy, code_to_analyze, context_note>>
  /\ UNCHANGED <<pipeline_vars, learning_vars, monitor_vars>>

InitTruncation ==
  \E n \in LineCounts, k \in LineLengths, trailing \in BOOLEAN,
     limit \in MaxCharsValues, strategy \in TruncationStrategies :
    /\ PipelineIdle /\ LearningIdle /\ MonitorIdle
    /\ content = Text(n, k, trailing)
    /\ max_chars = limit
    /\ truncation_strategy = strategy
    /\ code_to_analyze = <<>>
    /\ context_note = None
    /\ prompt_code = <<>>

NextTruncation == GetLLMAnalysis \/ SmartLLMPrompt

SpecTruncation == InitTruncation /\ [][NextTruncation]_vars

-----------------------------------------------------------------------------
(* Properties *)

Range(q) == {q[i] : i \in DOMAIN q}

\* layer number i of the result map reports FAIL with at least this confidence
FailsAt(i, confidence) ==
  /\ results[i].result.status = "FAIL"
  /\ results[i].result.confidence >= confidence

Failing(confidence) == {i \in DOMAIN results : FailsAt(i, confidence)}

\* the verdict reports the layers Q of the result map and no other layer
BuiltFrom(Q) ==
  /\ Range(verdict.issues) = UNION {Range(results[i].result.issues) : i \in Q}
  /\ Len(verdict.reasoning) = Cardinality(Q)
  /\ Range(verdict.reasoning) =
       {[layer |-> results[i].layer, reasoning |-> results[i].result.reasoning] : i \in Q}

IsVerdict(status, confidence, auto) ==
  /\ verdict.status = status
  /\ verdict.confidence = confidence
  /\ verdict.should_auto_mark = auto

Rule1Fires == Failing(95) # {}

SecurityOrImport ==
  {i \in DOMAIN results : results[i].layer \in {"security_patterns", "import_validation"}}

Rule2Fires == ~Rule1Fires /\ Failing(90) \cap SecurityOrImport # {}

Rule3Fires == ~Rule1Fires /\ ~Rule2Fires /\ Cardinality(Failing(85)) >= 2

ResultOf(layer) == (CHOOSE i \in DOMAIN results : results[i].layer = layer)

Reports(layer, status, confidence) ==
  /\ \E i \in DOMAIN results : results[i].layer = layer
  /\ results[ResultOf(layer)].result.status = status
  /\ results[ResultOf(layer)].result.confidence = confidence

\* C1: when some layer has FAIL with confidence >= 95 the verdict is FAIL at
\* 95, auto-marked, and its issues and reasoning come from exactly the layers
\* that have FAIL with confidence >= 95.
C1_Rule1 ==
  (pc = "done" /\ Rule1Fires) =>
    IsVerdict("FAIL", 95, TRUE) /\ BuiltFrom(Failing(95))

\* a definitive failure next to a failing layer that is not reported
C1_Witness ==
  /\ pc = "done"
  /\ Rule1Fires
  /\ \E i \in DOMAIN results :
       /\ FailsAt(i, 80) /\ ~FailsAt(i, 95)
       /\ results[i].result.issues # <<>>
       /\ Range(results[i].result.issues) \cap Range(verdict.issues) = {}

\* C2: a syntax layer FAIL at confidence 100 makes the verdict FAIL at 95,
\* auto-marked, whatever the other five layers report.
C2_SyntaxFailPrecedence ==
  (pc = "done" /\ Reports("syntax_validation", "FAIL", 100)) =>
    IsVerdict("FAIL", 95, TRUE)

\* a syntax error together with a security failure that rule 2 would take
C2_Witness ==
  /\ pc = "done"
  /\ Reports("syntax_validation", "FAIL", 100)
  /\ Reports("security_patterns", "FAIL", 90)
  /\ Reports("execution_test", "PASS", 95)
  /\ verdict.confidence = 95

\* C3: without a FAIL at >= 95, a security or import FAIL at >= 90 makes the
\* verdict FAIL at 92, auto-marked, built from the qualifying security and
\* import layers only.
C3_Rule2 ==
  (pc = "done" /\ Rule2Fires) =>
    IsVerdict("FAIL", 92, TRUE) /\ BuiltFrom(Failing(90) \cap SecurityOrImport)

\* rule 2 fires while another layer also fails at 90 and is not reported
C3_Witness ==
  /\ pc = "done"
  /\ Rule2Fires
  /\ Reports("execution_test", "FAIL", 90)
  /\ verdict.confidence = 92
  /\ Len(verdict.reasoning) = 1

\* C4: without rules 1 and 2, two or more layers with FAIL at >= 85 make the
\* verdict FAIL at 88, not auto-marked, built from all layers with FAIL at
\* >= 85.
C4_Rule3 ==
  (pc = "done" /\ Rule3Fires) =>
    IsVerdict("FAIL", 88, FALSE) /\ BuiltFrom(Failing(85))

\* two medium failures next to a weaker one that is not reported
C4_Witness ==
  /\ pc = "done"
  /\ Rule3Fires
  /\ Cardinality(Failing(85)) = 2
  /\ Cardinality(Failing(80)) = 3
  /\ verdict.confidence = 88

\* the weights and scores as the specification of the weighted vote gives them
VoteWeight(layer) ==
  CASE layer = "syntax_validation" -> 25
    [] layer = "import_validation" -> 20
    [] layer = "security_patterns" -> 20
    [] layer = "execution_test"    -> 20
    [] layer = "smart_llm"         -> 10
    [] layer = "dependency_check"  -> 5

VoteScore(i) ==
  CASE results[i].result.status = "PASS" -> results[i].result.confidence
    [] results[i].result.status = "FAIL" -> 100 - results[i].result.confidence
    [] OTHER -> 50

Voting == {i \in DOMAIN results : results[i].result.status # "SKIP"}

RECURSIVE VoteSum(_, _)
VoteSum(S, weighted) ==
  IF S = {} THEN 0
  ELSE LET i == CHOOSE j \in S : TRUE
       IN  VoteWeight(results[i].layer) * (IF weighted THEN VoteScore(i) ELSE 1)
           + VoteSum(S \ {i}, weighted)

\* floor of the weighted mean, capped at 98
VoteConfidence ==
  LET mean == VoteSum(Voting, TRUE) \div VoteSum(Voting, FALSE)
  IN  IF mean > 98 THEN 98 ELSE mean

WeightedVoteApplies ==
  ~Rule1Fires /\ ~Rule2Fires /\ ~Rule3Fires /\ Voting # {}

\* C5: when no rule fires and some layer is not SKIP, the confidence is
\* min(98, floor(sum(score * weight) / sum(weight))), the status is PASS from
\* 90, UNCERTAIN from 75 to 89 and FAIL below 75, and should_auto_mark is
\* (confidence >= 90) or (status = FAIL and confidence >= 85).
C5_WeightedVote ==
  (pc = "done" /\ WeightedVoteApplies) =>
    /\ verdict.confidence = VoteConfidence
    /\ verdict.status = (IF verdict.confidence >= 90 THEN "PASS"
                         ELSE IF verdict.confidence >= 75 THEN "UNCERTAIN"
                         ELSE "FAIL")
    /\ verdict.should_auto_mark =
         (verdict.confidence >= 90
            \/ (verdict.status = "FAIL" /\ verdict.confidence >= 85))

\* C6: the confidence of every verdict is an integer in 0..100.
C6_ConfidenceRange ==
  pc = "done" => verdict.confidence \in 0..100

ScenarioD ==
  /\ Reports("syntax_validation", "PASS", 100)
  /\ Reports("import_validation", "PASS", 95)
  /\ Reports("security_patterns", "PASS", 90)
  /\ Reports("execution_test", "PASS", 95)
  /\ Reports("smart_llm", "PASS", 90)
  /\ Reports("dependency_check", "PASS", 85)

\* C7 as stated: all six layers PASS at 100, 95, 90, 95, 90, 85 give the
\* verdict PASS at confidence 93, auto-marked.
C7_ScenarioD_93 ==
  (pc = "done" /\ ScenarioD) => IsVerdict("PASS", 93, TRUE)

\* C7: all six layers PASS at 100, 95, 90, 95, 90, 85 give the verdict PASS at
\* confidence 94 (9425 / 100 truncated), auto-marked.
C7_ScenarioD_94 ==
  (pc = "done" /\ ScenarioD) => IsVerdict("PASS", 94, TRUE)

C7_Witness ==
  pc = "done" /\ ScenarioD /\ verdict.status = "PASS" /\ verdict.issues = <<>>

\* a valid .py file whose syntax, execution and dependency layers pass
OtherwiseClean ==
  /\ file.py
  /\ Reports("syntax_validation", "PASS", 100)
  /\ Reports("execution_test", "PASS", 95)
  /\ Reports("dependency_check", "PASS", 85)

ScenarioBorC ==
  /\ OtherwiseClean
  /\ \/ Reports("import_validation", "FAIL", 90)
     \/ Reports("security_patterns", "FAIL", 92)

\* C8 as stated: a valid, otherwise clean .py file with a missing import
\* (import FAIL at 90) or a security match (security FAIL at 92) gets FAIL at
\* confidence 92, auto-marked, from focused_analyze.
C8_ScenariosBC_92 ==
  (pc = "done" /\ ScenarioBorC) => IsVerdict("FAIL", 92, TRUE)

\* C8: such a file gets FAIL, auto-marked, at confidence 92 unless the
\* reviewer layer reports FAIL with confidence >= 95, and at 95 when it does.
C8_ScenariosBC ==
  (pc = "done" /\ ScenarioBorC) =>
    IsVerdict("FAIL",
              IF FailsAt(ResultOf("smart_llm"), 95) THEN 95 ELSE 92,
              TRUE)

\* scenario C with a reviewer that found nothing
C8_Witness ==
  /\ pc = "done"
  /\ OtherwiseClean
  /\ Reports("security_patterns", "FAIL", 92)
  /\ Reports("import_validation", "PASS", 95)
  /\ Reports("smart_llm", "PASS", 90)
  /\ llm_calls = 1
  /\ verdict.confidence = 92

AllSkip == \A i \in DOMAIN results : results[i].result.status = "SKIP"

\* C9: when every layer is SKIP the verdict is UNCERTAIN at confidence 50
\* with no issues and is not auto-marked.
C9_AllSkip ==
  (pc = "done" /\ AllSkip) =>
    IsVerdict("UNCERTAIN", 50, FALSE) /\ verdict.issues = <<>>

C9_Witness ==
  pc = "done" /\ Len(results) = 6 /\ AllSkip /\ verdict.reasoning = <<>>

\* C10: when a result computed before the reviewer layer has FAIL with
\* confidence >= 95, the reviewer layer returns FAIL at 100 with reasoning
\* naming those layers and makes no model call; otherwise it makes the call.
C10_ShortCircuit ==
  [][pc = "llm" =>
       LET llm == results'[Len(results')]
       IN  /\ llm.layer = "smart_llm"
           /\ IF Failing(95) # {}
                THEN /\ llm_calls' = llm_calls
                     /\ llm.result.status = "FAIL"
                     /\ llm.result.confidence = 100
                     /\ llm.result.reasoning.text = "Confirmed by: <layers>"
                     /\ Range(llm.result.reasoning.names) =
                          {results[i].layer : i \in Failing(95)}
                ELSE llm_calls' = llm_calls + 1]_vars

\* the reviewer layer short-circuited on a compilation failure
C10_Witness ==
  /\ pc = "dependency"
  /\ llm_calls = 0
  /\ Reports("execution_test", "FAIL", 95)
  /\ Reports("syntax_validation", "PASS", 100)
  /\ Reports("smart_llm", "FAIL", 100)

\* the results of the run so far, by layer
Has(layer) == \E i \in DOMAIN results : results[i].layer = layer

Position(layer) == CHOOSE i \in DOMAIN results : results[i].layer = layer

\* the reviewer layer of this run made the model call and the call raised
LLMCallFailed ==
  /\ Has("smart_llm")
  /\ \A i \in 1..(Position("smart_llm") - 1) : ~FailsAt(i, 95)
  /\ env.reply.raised

OtherLayers ==
  {"syntax_validation", "import_validation", "security_patterns",
   "execution_test", "dependency_check"}

DeterministicBeforeLLM ==
  {"syntax_validation", "import_validation", "security_patterns",
   "execution_test"}

\* C12 as stated: the reviewer layer starts only after all five other layers
\* have produced their results.
C12_LLMAfterAllFive ==
  pc = "llm" => \A l \in OtherLayers : Has(l)

\* C12: the reviewer layer starts only after the syntax, import, security
\* and execution layers have produced their results; the dependency layer
\* produces its result after the reviewer layer has returned.
C12_LLMAfterFour ==
  /\ pc = "llm" => \A l \in DeterministicBeforeLLM : Has(l)
  /\ Has("smart_llm") =>
       \A l \in DeterministicBeforeLLM :
         Has(l) /\ Position(l) < Position("smart_llm")
  /\ Has("dependency_check") =>
       Has("smart_llm") /\ Position("smart_llm") < Position("dependency_check")

\* the reviewer layer has returned and the dependency layer has not run yet
C12_Witness ==
  /\ pc = "dependency"
  /\ Has("smart_llm")
  /\ ~Has("dependency_check")
  /\ llm_calls = 1

\* C13: once execution_test has returned, the temporary file it created no
\* longer exists.
C13_TempFileRemoved ==
  pc \in {"llm", "dependency", "combine", "done"} => temp_file # "exists"

\* C14: no exception leaves a layer, so every run of focused_analyze reaches
\* focused_combine and returns a verdict.
C14_NoEscape ==
  pc # "crashed"

\* C15: every layer result has a confidence in 0..100.
C15_LayerConfidenceRange ==
  \A i \in DOMAIN results : results[i].result.confidence \in 0..100

\* C16: every layer result with status PASS or SKIP has no issues.
C16_PassSkipNoIssues ==
  \A i \in DOMAIN results :
    results[i].result.status \in {"PASS", "SKIP"} =>
      results[i].result.issues = <<>>

\* C17: a layer result is SKIP only for a path that does not end in .py and
\* only from the syntax, import and execution layers, and it has confidence 0
\* and no issues.
C17_SkipOnlyNotPython ==
  \A i \in DOMAIN results :
    results[i].result.status = "SKIP" =>
      /\ ~file.py
      /\ results[i].layer \in {"syntax_validation", "import_validation", "execution_test"}
      /\ results[i].result.confidence = 0
      /\ results[i].result.issues = <<>>

\* a file that is not Python went through all six layers
C17_Witness ==
  /\ pc = "done"
  /\ ~file.py
  /\ Cardinality({i \in DOMAIN results : results[i].result.status = "SKIP"}) = 3
  /\ Reports("security_patterns", "FAIL", 92)

DeterministicPass ==
  /\ file.py
  /\ Reports("syntax_validation", "PASS", 100)
  /\ Reports("import_validation", "PASS", 95)
  /\ Reports("security_patterns", "PASS", 90)
  /\ Reports("execution_test", "PASS", 95)

\* C19: a .py file whose dependency layer reports FAIL at 80 and whose other
\* deterministic layers pass gets status FAIL from focused_analyze.
C19_ImportIssuesFail ==
  (pc = "done" /\ DeterministicPass /\ Reports("dependency_check", "FAIL", 80)) =>
    verdict.status = "FAIL"

LLMStatus == results[Position("smart_llm")].result.status

LLMConfidence == results[Position("smart_llm")].result.confidence

ExecutionResult == results[Position("execution_test")].result

\* C24: for a .py file the execution layer returns PASS at 95 when the
\* subprocess exits with code 0, FAIL at 95 with the compiler's stderr as its
\* issue when it exits with another code, FAIL at 90 with a timeout issue when
\* it runs over the timeout, and UNCERTAIN at 50 with an issue describing the
\* failure when the invocation fails in any other way.
C24_ExecutionOutcomes ==
  (Has("execution_test") /\ file.py) =>
    CASE env.outcome = "exit0" ->
           /\ Reports("execution_test", "PASS", 95)
           /\ ExecutionResult.issues = <<>>
      [] env.outcome = "nonzero" ->
           /\ Reports("execution_test", "FAIL", 95)
           /\ ExecutionResult.issues = <<"Compilation error: <stderr>">>
      [] env.outcome = "timeout" ->
           /\ Reports("execution_test", "FAIL", 90)
           /\ ExecutionResult.issues = <<"Compilation timeout">>
      [] OTHER ->
           /\ env.outcome \in {"tempfile_error", "run_error"}
           /\ Reports("execution_test", "UNCERTAIN", 50)
           /\ ExecutionResult.issues = <<"Test error: <e>">>

\* the compiler ran over the timeout and the run went on to its verdict
C24_Witness ==
  /\ pc = "done"
  /\ file.py
  /\ env.outcome = "timeout"
  /\ Reports("execution_test", "FAIL", 90)
  /\ verdict.status = "UNCERTAIN"

\* C25: a verdict with should_auto_mark true is FAIL at confidence 95 or 92,
\* or PASS with confidence in 90..98; so an UNCERTAIN verdict, a FAIL of the
\* weighted vote and a FAIL at 88 are never auto-marked.
C25_AutoMark ==
  pc = "done" =>
    /\ verdict.should_auto_mark =>
         \/ verdict.status = "FAIL" /\ verdict.confidence \in {92, 95}
         \/ verdict.status = "PASS" /\ verdict.confidence \in 90..98
    /\ verdict.status = "UNCERTAIN" => ~verdict.should_auto_mark
    /\ (WeightedVoteApplies /\ verdict.status = "FAIL") => ~verdict.should_auto_mark
    /\ (verdict.status = "FAIL" /\ verdict.confidence = 88) => ~verdict.should_auto_mark

\* the weighted vote gave UNCERTAIN just below the PASS threshold
C25_Witness ==
  /\ pc = "done"
  /\ WeightedVoteApplies
  /\ IsVerdict("UNCERTAIN", 89, FALSE)

\* the reviewer layer returned without calling the model
ShortCircuited ==
  /\ Has("smart_llm")
  /\ results[Position("smart_llm")].result.reasoning.text = "Confirmed by: <layers>"

\* C26: when the reviewer layer short-circuits, the verdict is that of rule 1
\* (FAIL, 95, auto-marked), its reasoning has the part 'smart_llm: Confirmed
\* by: ...', and the reviewer layer adds no issue.
C26_ShortCircuitVerdict ==
  (pc = "done" /\ ShortCircuited) =>
    /\ Reports("smart_llm", "FAIL", 100)
    /\ IsVerdict("FAIL", 95, TRUE)
    /\ [layer |-> "smart_llm",
        reasoning |-> results[Position("smart_llm")].result.reasoning]
         \in Range(verdict.reasoning)
    /\ results[Position("smart_llm")].result.issues = <<>>
    /\ Range(verdict.issues) =
         UNION {Range(results[i].result.issues) :
                  i \in Failing(95) \ {Position("smart_llm")}}

\* a syntax error short-circuited the reviewer
C26_Witness ==
  /\ pc = "done"
  /\ ShortCircuited
  /\ llm_calls = 0
  /\ Reports("syntax_validation", "FAIL", 100)
  /\ Len(verdict.reasoning) >= 2

NeverSkip == {"security_patterns", "smart_llm", "dependency_check"}

Skipped == {results[i].layer : i \in {j \in DOMAIN results : results[j].result.status = "SKIP"}}

\* C27: the security, reviewer and dependency layers never return SKIP; for a
\* path that is not .py exactly the syntax, import and execution layers do;
\* so at least three layers contribute to every verdict and the all-SKIP
\* branch of focused_combine is never taken.
C27_ThreeContribute ==
  /\ Skipped \cap NeverSkip = {}
  /\ pc = "done" =>
       /\ ~file.py => Skipped = Layers \ NeverSkip
       /\ Len(contributing(results)) >= 3
       /\ ~AllSkip
       /\ total_weight(contributing(results)) >= 35

\* a file that is not Python passed on the three layers that look at it
C27_Witness ==
  /\ pc = "done"
  /\ ~file.py
  /\ Len(contributing(results)) = 3
  /\ WeightedVoteApplies
  /\ verdict.status = "PASS"

\* how often suggestion number i is listed as failed or as successful
Listed(i) ==
  Cardinality({k \in DOMAIN failed_suggestions : failed_suggestions[k] = i})
    + Cardinality({k \in DOMAIN successful_suggestions : successful_suggestions[k] = i})

\* C29: after any sequence of log and mark calls, get_learning_stats reports
\* successful + failed <= total_suggestions and pending >= 0, and every
\* logged suggestion is listed at most once in failed_suggestions and
\* successful_suggestions together.
C29_StatsConsistent ==
  /\ get_learning_stats.successful + get_learning_stats.failed
       <= get_learning_stats.total_suggestions
  /\ get_learning_stats.pending >= 0
  /\ \A i \in DOMAIN conversation_history : Listed(i) <= 1

\* C30: a mark call whose suggestion_id does not identify a logged suggestion
\* (id >= number of logged suggestions, or id < 0) leaves
\* conversation_history, failed_suggestions and successful_suggestions as
\* they were and raises no error.
C30_UnknownIdNoEffect ==
  [][(/\ call'.op \in {"mark_suggestion_failed", "mark_suggestion_successful"}
      /\ (call'.id >= Len(conversation_history) \/ call'.id < 0))
       => /\ UNCHANGED <<conversation_history, failed_suggestions, successful_suggestions>>
          /\ call'.raised = "none"]_vars

\* get_llm_analysis has selected its text; smart_llm_critical_only has
Selected == context_note # None

Prompted == prompt_code # <<>>

\* the content is over the limit, the strategy is smart, and there are more
\* than 50 lines
SmartCase ==
  /\ Len(content) > max_chars
  /\ truncation_strategy = "smart"
  /\ Len(split(content)) > 50

\* the text is the first 25 lines of the content, the marker line and the
\* last 25 lines of the content: 51 lines
FirstMarkerLast(text) ==
  /\ Len(split(text)) = 51
  /\ SubSeq(split(text), 1, 25) = SubSeq(split(content), 1, 25)
  /\ split(text)[26] = truncated_marker
  /\ SubSeq(split(text), 27, 51) =
       SubSeq(split(content), Len(split(content)) - 24, Len(split(content)))

Recorded(t) == get(file_hashes, threads[t].file_path, None)

\* thread t leaves the hash check in this step
Compares(t) == threads[t].pc = "compare" /\ threads'[t].pc # "compare"

\* the contents logged for one file, one after the other, differ
NoRepeatedLog ==
  \A i, j \in DOMAIN conversation_history :
    (/\ i < j
     /\ conversation_history[i].context = conversation_history[j].context
     /\ \A k \in (i + 1)..(j - 1) :
          conversation_history[k].context # conversation_history[i].context)
      => md5(conversation_history[i].code_provided)
           # md5(conversation_history[j].code_provided)

\* C22: when the calls of analyze_file_change follow one another, a call logs
\* and analyses only if the hash of the content differs from the hash the
\* previous call recorded for the file, and then records it; a call with the
\* recorded content logs nothing, analyses nothing and leaves file_hashes as
\* it is.
C22_Deduplication ==
  /\ [][\A t \in DOMAIN threads :
          Compares(t) =>
            IF current_hash(threads[t]) = Recorded(t)
              THEN /\ threads'[t].pc = "unchanged"
                   /\ UNCHANGED <<file_hashes, conversation_history, analyses>>
            ELSE /\ threads'[t].pc = "log"
                 /\ file_hashes' = set(file_hashes, threads[t].file_path,
                                       current_hash(threads[t]))]_vars
  /\ [][(conversation_history # conversation_history' \/ analyses # analyses') =>
          \E t \in DOMAIN threads :
            /\ threads[t].pc \in {"log", "analyze"}
            /\ threads'[t].pc # threads[t].pc
            /\ Recorded(t) = current_hash(threads[t])
            /\ threads[t].previous_hash # current_hash(threads[t])]_vars
  /\ []NoRepeatedLog

\* a second call found the content of the first and returned
C22_Witness ==
  /\ Len(threads) = 2
  /\ threads[1].pc = "done"
  /\ threads[2].pc = "unchanged"
  /\ Len(conversation_history) = 1
  /\ Len(analyses) = 1

\* thread t went on after the hash check
Passed(t) == threads[t].pc \in {"log", "analyze", "done", "error"}

\* C23: of the threads that read one unchanged content of a file, at most
\* one goes on after the hash check to log_agent_change and
\* auto_analyze_code, however their reads and writes of file_hashes
\* interleave.
C23_OneRunPerSnapshot ==
  \A t, u \in DOMAIN threads :
    (/\ t # u
     /\ threads[t].file_path = threads[u].file_path
     /\ Passed(t) /\ Passed(u))
      => threads[t].snapshot # threads[u].snapshot

\* thread t has called analyze_file_change
Called(t) == threads[t].pc \notin {"sleep", "check", "superseded"}

\* a later event for the file of thread t has arrived
Superseded(t) ==
  \E u \in DOMAIN threads :
    u > t /\ threads[u].file_path = threads[t].file_path

\* C28: the thread of the last event for a file calls analyze_file_change
\* once it is scheduled; and a thread calls it exactly if no event for its
\* file arrived in the two seconds before it woke, so a thread whose event
\* was followed by another one less than 2 seconds before its wake-up does
\* not.
C28_Debounce ==
  /\ \A t \in 1..MaxEvents :
       (t \in DOMAIN threads) ~>
         (t \in DOMAIN threads /\ (Called(t) \/ Superseded(t)))
  /\ [][\A t \in DOMAIN threads :
          (threads[t].pc = "check" /\ threads'[t].pc # "check") =>
            (threads'[t].pc = "read" <=>
               \A u \in DOMAIN threads :
                 threads[u].file_path = threads[t].file_path =>
                   threads[t].current_time - threads[u].started >= 2)]_vars

\* the thread of the first event gave way to the thread of the second
C28_Witness ==
  /\ Len(threads) = 2
  /\ threads[1].pc = "superseded"
  /\ threads[2].started - threads[1].started = 1
  /\ Called(2)

====
